---- MODULE Spec2Model ----
(***************************************************************************)
(* A model of the UDP endpoints of udp_client_server.cpp (UdpClient,       *)
(* UdpServer: construction, destruction, non-blocking recv) and of the     *)
(* timed polling loop UdpUtils::readUdp of udp_utils.h.                    *)
(*                                                                         *)
(* Widths are kept: bytes_received is an int16_t, elapsed_time_us and      *)
(* timeout_us are uint16_t, sequence numbers are 4 little-endian bytes,    *)
(* and the timeout is computed in IEEE-754 double arithmetic.              *)
(***************************************************************************)
EXTENDS Integers, Sequences, FiniteSets, TLC

(***************************************************************************)
(* Bounds of the model.                                                    *)
(***************************************************************************)
\* datagrams the receive socket can hold at once
MaxQueue == 1
\* receive attempts followed within one readUdp call
MaxAttempts == 2
\* readUdp calls followed within one behaviour
MaxCalls == 2

\* datagrams the network delivers in one behaviour
MaxDatagrams == 2

(***************************************************************************)
(* IEEE-754 double arithmetic for  1.2 * (1000000.0 / udp_rate)            *)
(* (udp_utils.h line 63).  Big naturals are little-endian bit vectors:     *)
(* index 1 is bit 0.  A function is turned into a tuple with  \o <<>>  so  *)
(* that it is computed once.                                               *)
(***************************************************************************)
RECURSIVE BitLen(_)
BitLen(n) == IF n = 0 THEN 0 ELSE 1 + BitLen(n \div 2)

RECURSIVE Pow2(_)
Pow2(k) == IF k = 0 THEN 1 ELSE 2 * Pow2(k - 1)

\* little-endian bit vector (index 1 is bit 0) of n, exactly w bits wide
NatBits(n, w) == [i \in 1..w |-> (n \div Pow2(i - 1)) % 2] \o <<>>

Bit(a, i) == IF i >= 1 /\ i <= Len(a) THEN a[i] ELSE 0

\* value of the n bits of a that start at index lo
RECURSIVE BitsVal(_, _, _)
BitsVal(a, lo, n) == IF n = 0 THEN 0 ELSE Bit(a, lo) + 2 * BitsVal(a, lo + 1, n - 1)

LimbBits == 14
Limb(a, j) == BitsVal(a, LimbBits * j + 1, LimbBits)

\* column k (from 0) of the schoolbook product of two 4-limb numbers
\* the remainder after j limbs of the fraction rem / d were produced
RECURSIVE FracRem(_, _, _)
FracRem(rem, d, j) ==
    IF j = 0 THEN rem ELSE (FracRem(rem, d, j - 1) * Pow2(LimbBits)) % d

\* limb j (from 1, most significant first) of the fraction rem / d
FracLimb(rem, d, j) == (FracRem(rem, d, j - 1) * Pow2(LimbBits)) \div d

FracLimbs == 4
\* the first 4 limbs of the fraction rem / d as a bit vector
FracBits(rem, d) ==
    [i \in 1..(FracLimbs * LimbBits) |->
        (FracLimb(rem, d, FracLimbs - (i - 1) \div LimbBits)
            \div Pow2((i - 1) % LimbBits)) % 2] \o <<>>

RECURSIVE MulColumn(_, _, _, _)
MulColumn(la, lb, k, i) ==
    IF i > k \/ i > 3 THEN 0
    ELSE (IF k - i <= 3 THEN la[i + 1] * lb[k - i + 1] ELSE 0)
         + MulColumn(la, lb, k, i + 1)

RECURSIVE MulCarry(_, _)
MulCarry(col, k) ==
    IF k = 0 THEN 0 ELSE (col[k] + MulCarry(col, k - 1)) \div Pow2(LimbBits)

DigitBits(digit) ==
    [i \in 1..(8 * LimbBits) |->
        (digit[(i - 1) \div LimbBits + 1] \div Pow2((i - 1) % LimbBits)) % 2] \o <<>>
MulDigits(col) ==
    DigitBits([k \in 1..8 |-> (col[k] + MulCarry(col, k - 1)) % Pow2(LimbBits)] \o <<>>)
MulLimbs(la, lb) == MulDigits([k \in 1..8 |-> MulColumn(la, lb, k - 1, 0)] \o <<>>)
\* product of two bit vectors of at most 4 limbs each
BigMul(a, b) == MulLimbs([j \in 1..4 |-> Limb(a, j - 1)] \o <<>>,
                         [j \in 1..4 |-> Limb(b, j - 1)] \o <<>>)

BigLen(a) == CHOOSE n \in 0..Len(a) :
                /\ n = 0 \/ a[n] = 1
                /\ \A i \in (n + 1)..Len(a) : a[i] = 0

BigInc(a) == [i \in 1..(Len(a) + 1) |->
                LET carry == \A j \in 1..(i - 1) : a[j] = 1
                IN (Bit(a, i) + IF carry THEN 1 ELSE 0) % 2] \o <<>>

\* a / 2^k rounded to nearest, ties to even; sticky says that nonzero bits
\* below a were already dropped
RoundShift(a, k, sticky) ==
    LET kept  == SubSeq(a, k + 1, Len(a))
        rest  == sticky \/ \E i \in 1..(k - 1) : a[i] = 1
        up    == Bit(a, k) = 1 /\ (rest \/ Bit(kept, 1) = 1)
    IN IF up THEN BigInc(kept) ELSE kept

MantissaBits == 53
\* the double nearest to 1.2: 0x13333333333333 * 2^-52
Double12 == [i \in 1..MantissaBits |->
                IF i = MantissaBits THEN 1 ELSE IF (i - 1) % 4 < 2 THEN 1 ELSE 0] \o <<>>

DoubleTrunc(my, frac) == BitsVal(my, frac + 1, Len(my) - frac)
DoubleRound(p, L, F) ==
    DoubleTrunc(RoundShift(p, L - MantissaBits, FALSE),
                ((MantissaBits - 1) + F) - (L - MantissaBits))
DoubleMul12(m, F) == DoubleRound(BigMul(m, Double12), BigLen(BigMul(m, Double12)), F)
\* 1000000.0 / rate: the 53-bit mantissa, of which all but BitLen(I) bits
\* are fraction bits
DoubleDiv(rate, I) ==
    RoundShift(FracBits(1000000 % rate, rate) \o NatBits(I, BitLen(I)),
               (FracLimbs * LimbBits + BitLen(I)) - MantissaBits,
               FracRem(1000000 % rate, rate, FracLimbs) # 0)
\* trunc(1.2 * (1000000.0 / rate)) in IEEE-754 double arithmetic
TimeoutDouble(rate) ==
    DoubleMul12(DoubleDiv(rate, 1000000 \div rate),
                MantissaBits - BitLen(1000000 \div rate))

(***************************************************************************)
(* Fixed-width integers.                                                   *)
(***************************************************************************)
\* int -> int16_t (udp_utils.h line 69: the int returned by recv is stored
\* in  int16_t bytes_received)
ToInt16(v) == ((v + 32768) % 65536) - 32768

\* integer -> uint16_t (udp_utils.h line 95)
ToUint16(v) == v % 65536

\* double -> uint16_t (udp_utils.h line 63).  A value that does not fit is
\* undefined behaviour: the build either keeps the low 16 bits of the
\* truncated value or saturates.
DoubleToUint16(v) == IF v <= 65535 THEN {v} ELSE {v % 65536, 65535}

\* a sequence number is the 4 bytes memcpy'd from the head of the packet
\* (udp_utils.h line 78) read as a little-endian uint32_t
U32(b0, b1, b2, b3) == <<b0, b1, b2, b3>>

\* sequence_number > highest_sequence_number on uint32_t (udp_utils.h line 81)
U32Greater(a, b) ==
    \E i \in 1..4 : a[i] > b[i] /\ \A j \in (i + 1)..4 : a[j] = b[j]

\* SizeMatches with the comparison weakened to "something was received":
\* the fault C5_SizeGating has to detect
SizeMatchesAny(b, n) == b > 0

\* bytes_received == recv_packet.size() (udp_utils.h line 73): the int16_t is
\* converted to size_t, so a negative value becomes larger than any size
SizeMatches(b, n) == b >= 0 /\ b = n

(***************************************************************************)
(* Inputs.                                                                 *)
(***************************************************************************)
\* target rates in Hz: UDP_RATE of udp_example.cpp and a rate whose window
\* does not fit 16 bits
Rates == {18, 200}

\* recv_packet.size(): PACKET_SIZE of udp_example.cpp and a large datagram
PacketSizes == {8, 40000}

\* microseconds one loop iteration can take: a fast one and a stall
Durations == {3000, 66000}

\* payload marker of a buffer only partly overwritten by a datagram
Partial == -1

\* the datagrams the network can deliver to a receiver of n-byte packets
Datagrams(n) ==
    { [len |-> n, seq |-> U32(0, 0, 0, 0), payload |-> 1],
      [len |-> n, seq |-> U32(3, 0, 0, 0), payload |-> 1],
      [len |-> n, seq |-> U32(5, 0, 0, 0), payload |-> 1],
      [len |-> n, seq |-> U32(5, 0, 0, 0), payload |-> 2],
      [len |-> n, seq |-> U32(255, 255, 255, 255), payload |-> 1],
      [len |-> n - 1, seq |-> U32(7, 0, 0, 0), payload |-> 1],
      [len |-> 0, seq |-> U32(0, 0, 0, 0), payload |-> 0],
      [len |-> n + 1, seq |-> U32(7, 0, 0, 0), payload |-> 1] }

\* what a receive attempt that took no datagram records
NoDatagram == [len |-> -1, seq |-> U32(0, 0, 0, 0), payload |-> 0]

\* T recv_packet_temp = {0} (udp_utils.h line 46)
ZeroPacket == [seq |-> U32(0, 0, 0, 0), payload |-> 0]

\* receive_packet_ of UdpExample before the first call (udp_example.cpp line 130)
CallerPacket == [seq |-> U32(9, 0, 0, 0), payload |-> 0]

(***************************************************************************)
(* State.                                                                  *)
(***************************************************************************)
VARIABLES
    client,                  \* the UdpClient object
    server,                  \* the UdpServer object
    wsaRefs,                 \* successful WSAStartup calls not yet cleaned up
    queue,                   \* datagrams waiting in the server's socket
    arrivals,                \* datagrams delivered to the server's socket so far
    packet_size,             \* recv_packet.size()
    pc,                      \* "idle", "loop" (udp_utils.h line 66), "done"
    calls,                   \* readUdp calls started
    udp_rate,
    recv_packet,             \* the caller's buffer
    recv_packet_temp,
    udp_error,
    bytes_received,
    highest_sequence_number,
    sequence_number,
    elapsed_time_us,
    timeout_us,
    now,                     \* steady_clock microseconds since  start
    entry,                   \* recv_packet when the current call started
    hist                     \* receive attempts of the current call

endpoints == <<client, server, wsaRefs>>
locals == <<udp_rate, recv_packet_temp, udp_error, bytes_received,
            highest_sequence_number, sequence_number, elapsed_time_us,
            timeout_us, now, entry, hist>>
vars == <<client, server, wsaRefs, queue, arrivals, packet_size, pc, calls, udp_rate,
          recv_packet, recv_packet_temp, udp_error, bytes_received,
          highest_sequence_number, sequence_number, elapsed_time_us,
          timeout_us, now, entry, hist>>

\* an endpoint object that has not been constructed
NoEndpoint ==
    [life |-> "none", f_addrinfo_ |-> "null", f_socket_ |-> "none",
     nonblocking |-> FALSE, bound |-> FALSE]

Init ==
    /\ client = NoEndpoint
    /\ server = NoEndpoint
    /\ wsaRefs = 0
    /\ queue = <<>>
    /\ arrivals = 0
    /\ packet_size \in PacketSizes
    /\ pc = "idle"
    /\ calls = 0
    /\ udp_rate = 0
    /\ recv_packet = CallerPacket
    /\ recv_packet_temp = ZeroPacket
    /\ udp_error = TRUE
    /\ bytes_received = 0
    /\ highest_sequence_number = U32(0, 0, 0, 0)
    /\ sequence_number = U32(0, 0, 0, 0)
    /\ elapsed_time_us = 0
    /\ timeout_us = 0
    /\ now = 0
    /\ entry = CallerPacket
    /\ hist = <<>>

(***************************************************************************)
(* Winsock reference counting and the endpoints.                           *)
(***************************************************************************)
\* WSACleanup(): undoes one successful WSAStartup, fails when there is none
WSACleanup(refs) == IF refs > 0 THEN refs - 1 ELSE 0

\* the WSACleanup that takes the count from 1 to 0 deallocates every socket
\* of the process
LastCleanup(refs) == refs = 1

Deallocated(ep) ==
    IF ep.f_socket_ = "open" THEN [ep EXCEPT !.f_socket_ = "closed"] ELSE ep

\* the count after lines 70-75 / 228-233: WSAStartup, and WSACleanup when it
\* failed
AfterStartup(refs, ok) == IF ok THEN refs + 1 ELSE WSACleanup(refs)

\* UdpClient::UdpClient with the FIONBIO request leaving the socket blocking
\* (u_long mode = 0): the fault C11_NonBlocking has to detect
ClientConstructedBlocking(failAt, torn) ==
    CASE failAt = "resolve" ->
            [life |-> "thrown", f_addrinfo_ |-> "null", f_socket_ |-> "none",
             nonblocking |-> FALSE, bound |-> FALSE]
      [] failAt = "socket" ->
            [life |-> "thrown", f_addrinfo_ |-> "freed", f_socket_ |-> "none",
             nonblocking |-> FALSE, bound |-> FALSE]
      [] failAt = "ioctl" ->
            [life |-> "thrown", f_addrinfo_ |-> "allocated",
             f_socket_ |-> IF torn THEN "closed" ELSE "open",
             nonblocking |-> FALSE, bound |-> FALSE]
      [] OTHER ->
            [life |-> "live", f_addrinfo_ |-> "allocated", f_socket_ |-> "open",
             nonblocking |-> FALSE, bound |-> FALSE]

\* UdpClient::UdpClient, by the step that fails ("none": it returns)
ClientConstructed(failAt, torn) ==
    CASE failAt = "resolve" ->
            [life |-> "thrown", f_addrinfo_ |-> "null", f_socket_ |-> "none",
             nonblocking |-> FALSE, bound |-> FALSE]
      [] failAt = "socket" ->
            [life |-> "thrown", f_addrinfo_ |-> "freed", f_socket_ |-> "none",
             nonblocking |-> FALSE, bound |-> FALSE]
      [] failAt = "ioctl" ->
            [life |-> "thrown", f_addrinfo_ |-> "allocated",
             f_socket_ |-> IF torn THEN "closed" ELSE "open",
             nonblocking |-> FALSE, bound |-> FALSE]
      [] OTHER ->
            [life |-> "live", f_addrinfo_ |-> "allocated", f_socket_ |-> "open",
             nonblocking |-> TRUE, bound |-> FALSE]

\* whether the failing step of UdpClient::UdpClient calls WSACleanup
ClientCleansUp(failAt) == failAt \in {"socket", "ioctl"}

UdpClientCtor ==
    /\ pc = "idle"
    /\ client.life = "none"
    /\ \E ok \in BOOLEAN, failAt \in {"none", "resolve", "socket", "ioctl"} :
         LET r1    == AfterStartup(wsaRefs, ok)
             torn1 == ~ok /\ LastCleanup(wsaRefs)
             r2    == IF ClientCleansUp(failAt) THEN WSACleanup(r1) ELSE r1
             torn2 == ClientCleansUp(failAt) /\ LastCleanup(r1)
         IN /\ r1 = 0 => failAt = "resolve"
            /\ client' = ClientConstructed(failAt, torn2)
            /\ server' = IF torn1 \/ torn2 THEN Deallocated(server) ELSE server
            /\ queue' = IF torn1 \/ torn2 THEN <<>> ELSE queue
            /\ wsaRefs' = r2
    /\ UNCHANGED <<arrivals, packet_size, pc, calls, recv_packet, locals>>

UdpClientDtor ==
    /\ pc = "idle"
    /\ client.life = "live"
    /\ client' = [client EXCEPT !.life = "destroyed", !.f_addrinfo_ = "freed",
                                !.f_socket_ = "closed"]
    /\ server' = IF LastCleanup(wsaRefs) THEN Deallocated(server) ELSE server
    /\ queue' = IF LastCleanup(wsaRefs) THEN <<>> ELSE queue
    /\ wsaRefs' = WSACleanup(wsaRefs)
    /\ UNCHANGED <<arrivals, packet_size, pc, calls, recv_packet, locals>>

\* UdpServer::UdpServer without the throw on a failed bind (lines 266-271):
\* the fault C17_ConstructionOrder has to detect
ServerConstructedUnbound(failAt, torn) ==
    CASE failAt = "resolve" ->
            [life |-> "thrown", f_addrinfo_ |-> "null", f_socket_ |-> "none",
             nonblocking |-> FALSE, bound |-> FALSE]
      [] failAt = "socket" ->
            [life |-> "thrown", f_addrinfo_ |-> "freed", f_socket_ |-> "none",
             nonblocking |-> FALSE, bound |-> FALSE]
      [] failAt = "ioctl" ->
            [life |-> "thrown", f_addrinfo_ |-> "allocated",
             f_socket_ |-> IF torn THEN "closed" ELSE "open",
             nonblocking |-> FALSE, bound |-> FALSE]
      [] failAt = "bind" ->
            [life |-> "live", f_addrinfo_ |-> "allocated",
             f_socket_ |-> IF torn THEN "closed" ELSE "open",
             nonblocking |-> TRUE, bound |-> FALSE]
      [] OTHER ->
            [life |-> "live", f_addrinfo_ |-> "allocated", f_socket_ |-> "open",
             nonblocking |-> TRUE, bound |-> TRUE]

\* UdpServer::UdpServer, by the step that fails ("none": it returns)
ServerConstructed(failAt, torn) ==
    CASE failAt = "resolve" ->
            [life |-> "thrown", f_addrinfo_ |-> "null", f_socket_ |-> "none",
             nonblocking |-> FALSE, bound |-> FALSE]
      [] failAt = "socket" ->
            [life |-> "thrown", f_addrinfo_ |-> "freed", f_socket_ |-> "none",
             nonblocking |-> FALSE, bound |-> FALSE]
      [] failAt = "ioctl" ->
            [life |-> "thrown", f_addrinfo_ |-> "allocated",
             f_socket_ |-> IF torn THEN "closed" ELSE "open",
             nonblocking |-> FALSE, bound |-> FALSE]
      [] failAt = "bind" ->
            [life |-> "thrown", f_addrinfo_ |-> "freed", f_socket_ |-> "closed",
             nonblocking |-> TRUE, bound |-> FALSE]
      [] OTHER ->
            [life |-> "live", f_addrinfo_ |-> "allocated", f_socket_ |-> "open",
             nonblocking |-> TRUE, bound |-> TRUE]

\* whether the failing step of UdpServer::UdpServer calls WSACleanup
ServerCleansUp(failAt) == failAt \in {"resolve", "socket", "ioctl", "bind"}

UdpServerCtor ==
    /\ pc = "idle"
    /\ server.life = "none"
    /\ \E ok \in BOOLEAN,
          failAt \in {"none", "resolve", "socket", "ioctl", "bind"} :
         LET r1    == AfterStartup(wsaRefs, ok)
             torn1 == ~ok /\ LastCleanup(wsaRefs)
             r2    == IF ServerCleansUp(failAt) THEN WSACleanup(r1) ELSE r1
             torn2 == ServerCleansUp(failAt) /\ LastCleanup(r1)
         IN /\ r1 = 0 => failAt = "resolve"
            /\ server' = ServerConstructed(failAt, torn2)
            /\ client' = IF torn1 \/ torn2 THEN Deallocated(client) ELSE client
            /\ wsaRefs' = r2
    /\ UNCHANGED <<queue, arrivals, packet_size, pc, calls, recv_packet, locals>>

UdpServerDtor ==
    /\ pc = "idle"
    /\ server.life = "live"
    /\ server' = [server EXCEPT !.life = "destroyed", !.f_addrinfo_ = "freed",
                                !.f_socket_ = "closed"]
    /\ client' = IF LastCleanup(wsaRefs) THEN Deallocated(client) ELSE client
    /\ queue' = <<>>
    /\ wsaRefs' = WSACleanup(wsaRefs)
    /\ UNCHANGED <<arrivals, packet_size, pc, calls, recv_packet, locals>>

(***************************************************************************)
(* The network and UdpServer::recv.                                        *)
(***************************************************************************)
\* a datagram reaches the bound socket of the server
Arrive ==
    /\ server.f_socket_ = "open"
    /\ server.bound
    /\ Len(queue) < MaxQueue
    /\ arrivals < MaxDatagrams
    /\ \E d \in Datagrams(packet_size) : queue' = Append(queue, d)
    /\ arrivals' = arrivals + 1
    /\ UNCHANGED <<endpoints, packet_size, pc, calls, recv_packet, locals>>

\* UdpClient::send(msg, size): sendto the resolved address.  UdpExample sends
\* to the address its own server is bound to (udp_example.cpp lines 144-147),
\* so the datagram reaches the server's socket unless the network loses it.
UdpClientSend ==
    /\ pc = "idle"
    /\ client.life = "live"
    /\ \E d \in Datagrams(packet_size) :
         \E delivered \in IF /\ client.f_socket_ = "open"
                             /\ server.f_socket_ = "open"
                             /\ server.bound
                             /\ Len(queue) < MaxQueue
                             /\ arrivals < MaxDatagrams
                          THEN BOOLEAN
                          ELSE {FALSE} :
            /\ queue' = IF delivered THEN Append(queue, d) ELSE queue
            /\ arrivals' = IF delivered THEN arrivals + 1 ELSE arrivals
    /\ UNCHANGED <<endpoints, packet_size, pc, calls, recv_packet, locals>>

\* the buffer after a datagram of d.len bytes was copied into its first
\* max_size bytes
Filled(buf, d, max_size) ==
    IF d.len = 0 THEN buf
    ELSE IF d.len = max_size THEN [seq |-> d.seq, payload |-> d.payload]
    ELSE [seq |-> d.seq, payload |-> Partial]

\* UdpServer::recv(msg, max_size) = ::recv(f_socket_, msg, max_size, 0) on a
\* non-blocking datagram socket: ret is the int it returns, msg the buffer
\* after it, rest the queue after it, got the datagram it took
Recv(msg, max_size) ==
    IF server.f_socket_ # "open" \/ queue = <<>>
    THEN [ret |-> -1, msg |-> msg, rest |-> queue, got |-> NoDatagram]
    ELSE LET d == Head(queue)
         IN [ret  |-> IF d.len > max_size THEN -1 ELSE d.len,
             msg  |-> Filled(msg, d, max_size),
             rest |-> Tail(queue),
             got  |-> d]

(***************************************************************************)
(* UdpUtils::readUdp.                                                      *)
(***************************************************************************)
\* 1.2 * (1000000.0 / udp_rate) truncated, computed once for every rate
TimeoutTable == { <<rate, TimeoutDouble(rate)>> : rate \in Rates }

\* uint16_t timeout_us = 1.2 * (1000000.0 / udp_rate)
TimeoutUs(rate) ==
    DoubleToUint16((CHOOSE p \in TimeoutTable : p[1] = rate)[2])

\* readUdp with the comparison starting from the sequence number the caller's
\* buffer already holds, so that what an earlier call retained enters the
\* next one: the fault C12_Stateless has to detect
ReadUdpCallCarry ==
    /\ pc = "idle"
    /\ server.life = "live"
    /\ client.life = "live"
    /\ calls < MaxCalls
    /\ \E rate \in Rates :
         /\ udp_rate' = rate
         /\ timeout_us' \in TimeoutUs(rate)
    /\ recv_packet_temp' = ZeroPacket
    /\ udp_error' = TRUE
    /\ bytes_received' = 0
    /\ highest_sequence_number' = recv_packet.seq
    /\ sequence_number' = U32(0, 0, 0, 0)
    /\ elapsed_time_us' = 0
    /\ now' = 0
    /\ entry' = recv_packet
    /\ hist' = <<>>
    /\ calls' = calls + 1
    /\ pc' = "loop"
    /\ UNCHANGED <<endpoints, queue, arrivals, packet_size, recv_packet>>

\* lines 46-63: the call and the initialisation of its locals.  The caller
\* holds both endpoints, as UdpExample does (udp_example.cpp lines 54-58, 71).
ReadUdpCall ==
    /\ pc = "idle"
    /\ server.life = "live"
    /\ client.life = "live"
    /\ calls < MaxCalls
    /\ \E rate \in Rates :
         /\ udp_rate' = rate
         /\ timeout_us' \in TimeoutUs(rate)
    /\ recv_packet_temp' = ZeroPacket
    /\ udp_error' = TRUE
    /\ bytes_received' = 0
    /\ highest_sequence_number' = U32(0, 0, 0, 0)
    /\ sequence_number' = U32(0, 0, 0, 0)
    /\ elapsed_time_us' = 0
    /\ now' = 0
    /\ entry' = recv_packet
    /\ hist' = <<>>
    /\ calls' = calls + 1
    /\ pc' = "loop"
    /\ UNCHANGED <<endpoints, queue, arrivals, packet_size, recv_packet>>

\* line 73: the received packet is a good one
Valid(b) == SizeMatches(b, packet_size)

\* line 81 comparing with the sequence number the caller's buffer holds, which
\* would order packets across calls: the fault C15_NoOrderAcrossCalls has to
\* detect
ReplacesNewer(b, seq) == Valid(b) /\ U32Greater(seq, recv_packet.seq)

\* line 81: the new packet replaces the caller's
Replaces(b, seq) == Valid(b) /\ U32Greater(seq, highest_sequence_number)

\* Quits without the test of udp_error: the fault C6_NoData has to detect
QuitsOnEmpty(err, b) == b = -1

\* Quits with the test of udp_error inverted: the fault C7_IdleEarlyExit has
\* to detect
QuitsOnError(err, b) == err /\ b = -1

\* line 88: stop searching
Quits(err, b) == ~err /\ b = -1

\* lines 66-96: one iteration of the loop
Iterate ==
    /\ pc = "loop"
    /\ elapsed_time_us < timeout_us
    /\ Len(hist) < MaxAttempts
    /\ server.nonblocking \/ queue # <<>>
    /\ LET r   == Recv(recv_packet_temp, packet_size)
           b   == ToInt16(r.ret)
           seq == IF Valid(b) THEN r.msg.seq ELSE sequence_number
           err == IF Valid(b) THEN FALSE ELSE udp_error
       IN /\ bytes_received' = b
          /\ queue' = r.rest
          /\ udp_error' = err
          /\ sequence_number' = seq
          /\ recv_packet' = IF Replaces(b, seq) THEN r.msg ELSE recv_packet
          /\ recv_packet_temp' = IF Replaces(b, seq) THEN recv_packet ELSE r.msg
          /\ hist' = Append(hist, [ret |-> r.ret, got |-> r.got])
          /\ IF Quits(err, b)
             THEN /\ pc' = "done"
                  /\ UNCHANGED <<now, elapsed_time_us>>
             ELSE /\ pc' = "loop"
                  /\ \E dt \in Durations :
                       /\ now' = now + dt
                       /\ elapsed_time_us' = ToUint16(now + dt)
    /\ UNCHANGED <<endpoints, arrivals, packet_size, calls, udp_rate,
                   highest_sequence_number, timeout_us, entry>>

\* line 66: the loop condition fails
LoopExit ==
    /\ pc = "loop"
    /\ ~(elapsed_time_us < timeout_us)
    /\ pc' = "done"
    /\ UNCHANGED <<endpoints, queue, arrivals, packet_size, calls, recv_packet, locals>>

\* line 98: return udp_error; the locals of the call are gone
Return ==
    /\ pc = "done"
    /\ pc' = "idle"
    /\ udp_rate' = 0
    /\ recv_packet_temp' = ZeroPacket
    /\ udp_error' = TRUE
    /\ bytes_received' = 0
    /\ highest_sequence_number' = U32(0, 0, 0, 0)
    /\ sequence_number' = U32(0, 0, 0, 0)
    /\ elapsed_time_us' = 0
    /\ timeout_us' = 0
    /\ now' = 0
    /\ entry' = recv_packet
    /\ hist' = <<>>
    /\ UNCHANGED <<endpoints, queue, arrivals, packet_size, calls, recv_packet>>

Next ==
    \/ UdpClientCtor
    \/ UdpClientDtor
    \/ UdpServerCtor
    \/ UdpServerDtor
    \/ Arrive
    \/ UdpClientSend
    \/ ReadUdpCall
    \/ Iterate
    \/ LoopExit
    \/ Return

Spec == Init /\ [][Next]_vars

(***************************************************************************)
(* Vocabulary of the properties.                                           *)
(***************************************************************************)
Attempts == 1..Len(hist)

\* receive attempt i of the current call returned exactly the packet length
ExactLength(i) == hist[i].ret = packet_size

\* receive attempt i of the current call found the socket empty
NothingAvailable(i) == hist[i].got = NoDatagram

\* the bytes of a full-length datagram
Packet(d) == [seq |-> d.seq, payload |-> d.payload]

\* the caller's buffer holds an exact-length datagram received in this call
Retained == \E i \in Attempts : ExactLength(i) /\ recv_packet = Packet(hist[i].got)

\* this step makes a receive attempt
Receives == Len(hist') = Len(hist) + 1

\* the attempt this step makes
Latest == hist'[Len(hist')]

\* 1.2 x (1,000,000 / rate) microseconds, truncated to a whole microsecond
Window(rate) == 1200000 \div rate

\* receive attempt i of the current call passed the test of line 73
Accepted(i) == SizeMatches(ToInt16(hist[i].ret), packet_size)

\* lines 46-98 as a function of the call's inputs alone: the flag and the
\* buffer of a call that finds buf in the caller's buffer, starts from
\* udp_error = 1 and highest_sequence_number = 0, and makes the receive
\* attempts h for packets of n bytes
RECURSIVE FreshCall(_, _, _)
FreshCall(buf, h, n) ==
    IF h = <<>>
    THEN [udp_error |-> TRUE, recv_packet |-> buf]
    ELSE LET before == FreshCall(buf, SubSeq(h, 1, Len(h) - 1), n)
             last   == h[Len(h)]
             good   == SizeMatches(ToInt16(last.ret), n)
         IN [udp_error   |-> before.udp_error /\ ~good,
             recv_packet |-> IF good /\ U32Greater(last.got.seq, U32(0, 0, 0, 0))
                             THEN [seq |-> last.got.seq,
                                   payload |-> last.got.payload]
                             ELSE before.recv_packet]

(***************************************************************************)
(* Properties.                                                             *)
(***************************************************************************)
\* C1: when a call that received at least one exact-length datagram returns,
\* the sequence number in the caller's buffer is the maximum sequence number
\* among the exact-length datagrams received in the call.
C1_FreshestRetained ==
    (pc = "done" /\ \E i \in Attempts : ExactLength(i)) =>
        /\ \E i \in Attempts : ExactLength(i) /\ hist[i].got.seq = recv_packet.seq
        /\ \A i \in Attempts :
              ExactLength(i) => ~U32Greater(hist[i].got.seq, recv_packet.seq)

\* C2: once an exact-length datagram with sequence number s is retained, an
\* exact-length datagram received later in the call with a sequence number
\* equal to or lower than s leaves the caller's buffer unchanged.
C2_NotFresherIgnored ==
    [][(/\ pc = "loop"
        /\ Retained
        /\ Receives
        /\ Latest.ret = packet_size
        /\ ~U32Greater(Latest.got.seq, recv_packet.seq))
       => recv_packet' = recv_packet]_vars

\* C3: when a call returns errorFlag = false, the caller's buffer holds the
\* bytes of an exact-length datagram received during that call.
C3_NoErrorMeansReceived == (pc = "done" /\ ~udp_error) => Retained

\* C4: the flag a call returns is false if and only if at least one receive
\* attempt of the call returned exactly the packet length.
C4_FlagIffExactLength ==
    pc = "done" => (~udp_error <=> \E i \in Attempts : ExactLength(i))

\* C5: a receive attempt whose byte count differs from the packet length
\* (shorter, empty, or a failure) never changes the caller's buffer and never
\* turns errorFlag from true to false.
C5_SizeGating ==
    [][(Receives /\ Latest.ret # packet_size)
       => (recv_packet' = recv_packet /\ udp_error' = udp_error)]_vars

\* C5 witness: a short datagram was received after a valid packet had been
\* retained, and the retained packet is still in the caller's buffer.
C5_Witness ==
    \E i, j \in Attempts :
        /\ i < j
        /\ ExactLength(i)
        /\ recv_packet = Packet(hist[i].got)
        /\ hist[j].got.len = packet_size - 1
        /\ ~udp_error

C8_TimeoutBound == [][Receives => now < timeout_us]_vars

\* C9: the timeout window the loop compares elapsed time against equals
\* 1.2 x (1,000,000 / rate) microseconds truncated to a whole microsecond.
C9_WindowValue == pc # "idle" => timeout_us = Window(udp_rate)

\* C10: an endpoint whose constructor threw holds neither the resolved
\* address info nor an open socket.
C10_NoLeakOnThrow ==
    \A ep \in {client, server} :
        ep.life = "thrown" => (ep.f_addrinfo_ # "allocated" /\ ep.f_socket_ # "open")

\* C11: a live endpoint's socket is non-blocking in every state, so every
\* send (issued on a live client) and every recv (issued inside the loop of
\* readUdp) meets a non-blocking socket; a socket is bound only after it was
\* made non-blocking.
C11_NonBlocking ==
    /\ \A ep \in {client, server} : ep.life = "live" => ep.nonblocking
    /\ \A ep \in {client, server} : ep.bound => ep.nonblocking
    /\ pc = "loop" => server.nonblocking

\* C11 witness: a call whose first recv met an empty socket has returned
\* from it, both endpoints being live.
C11_Witness ==
    /\ pc = "loop"
    /\ Len(hist) = 1
    /\ NothingAvailable(1)
    /\ client.life = "live"
    /\ server.life = "live"
    /\ server.bound

\* C12: a call starts with its clock at 0, errorFlag = true and the highest
\* sequence number 0, and at every point of the call the flag and the
\* caller's buffer are those a fresh call computes from the buffer at entry
\* and the receive results of this call alone, whatever earlier calls left.
C12_Stateless ==
    pc \in {"loop", "done"} =>
        /\ hist = <<>> =>
              /\ udp_error
              /\ highest_sequence_number = U32(0, 0, 0, 0)
              /\ now = 0
              /\ elapsed_time_us = 0
        /\ udp_error = FreshCall(entry, hist, packet_size).udp_error
        /\ recv_packet = FreshCall(entry, hist, packet_size).recv_packet

\* C12 witness: a second call, entered with the packet the first call
\* retained in the buffer, has returned another packet.
C12_Witness ==
    /\ pc = "done"
    /\ calls = 2
    /\ entry # CallerPacket
    /\ Len(hist) = 2
    /\ ~udp_error
    /\ recv_packet # entry

\* C13: a call that has ended before its timeout window elapsed has seen a
\* valid packet (errorFlag is false) and its latest receive attempt found
\* nothing available: the socket was empty, not a wrong-size datagram and
\* not a receive error.
C13_EarlyExitOnlyWhenQuiet ==
    (pc = "done" /\ now < timeout_us) =>
        /\ ~udp_error
        /\ hist # <<>>
        /\ NothingAvailable(Len(hist))

\* C14: a receive attempt that returns exactly the packet length makes
\* errorFlag false, and bytes_received holds the byte count the attempt
\* returned.
C14_ExactLengthAccepted ==
    [][Receives =>
          /\ bytes_received' = Latest.ret
          /\ Latest.ret = packet_size => ~udp_error']_vars

\* C15: the first valid packet of a call whose sequence number is not 0 is
\* put in the caller's buffer, whatever sequence number the buffer held from
\* an earlier call: no freshness order is kept across calls.
C15_NoOrderAcrossCalls ==
    (/\ pc \in {"loop", "done"}
     /\ hist # <<>>
     /\ Accepted(Len(hist))
     /\ \A i \in 1..(Len(hist) - 1) : ~Accepted(i)
     /\ hist[Len(hist)].got.seq # U32(0, 0, 0, 0))
    => recv_packet = Packet(hist[Len(hist)].got)

\* C15 witness: a later call has returned errorFlag = false with a packet
\* whose sequence number is lower than that of the packet an earlier call
\* retained.
C15_Witness ==
    /\ pc = "done"
    /\ calls >= 2
    /\ entry # CallerPacket
    /\ ~udp_error
    /\ Retained
    /\ U32Greater(entry.seq, recv_packet.seq)

\* C16: within a call, once the packet with sequence number 2^32 - 1 is
\* retained, a later valid packet with a smaller (wrapped) sequence number
\* leaves the caller's buffer unchanged.
C16_WrappedRejected ==
    [][(/\ pc = "loop"
        /\ Retained
        /\ recv_packet.seq = U32(255, 255, 255, 255)
        /\ Receives
        /\ Latest.ret = packet_size
        /\ U32Greater(recv_packet.seq, Latest.got.seq))
       => recv_packet' = recv_packet]_vars

C18_QueuedPacketObserved ==
    /\ pc \in {"loop", "done"} => timeout_us > 0
    /\ pc = "done" =>
          /\ hist # <<>>
          /\ ExactLength(1) => ~udp_error

\* C19: every successful WSAStartup still counted belongs to a live endpoint
\* (those of destroyed endpoints and of constructors that threw have been
\* cleaned up), and no live endpoint has had its socket deallocated by a
\* WSACleanup of the other endpoint.
C19_StartupBalanced ==
    /\ wsaRefs <= (IF client.life = "live" THEN 1 ELSE 0)
                   + (IF server.life = "live" THEN 1 ELSE 0)
    /\ client.life = "live" => client.f_socket_ = "open"
    /\ server.life = "live" => server.f_socket_ = "open"

====
